---- MODULE Spec2Model ----
(***************************************************************************)
(* Model of the advantage2 demo.                                           *)
(*                                                                         *)
(* src/src/utils.py: get_mapping (Spec), get_chip_intersection_graph       *)
(* (SpecChip, SpecShape) and get_energies (SpecEnergy).                    *)
(* demo_interface.py and demo_callbacks.py: the solver lists, the page and *)
(* its callbacks (SpecUI), update_anneal_time over any ranges (SpecAnneal) *)
(* and toggle_left_column over any class string (SpecToggle).              *)
(*                                                                         *)
(* A graph is its adjacency dictionary (networkx keeps G._adj): a function *)
(* from the graph's nodes to the set of their neighbours.  A mapping is a  *)
(* record: callable says whether the Python object can be called (the      *)
(* candidates are functions, the initial value {} is a dict), f is the     *)
(* node relabelling it performs.  A string that is split or searched is    *)
(* the sequence of its pieces.                                             *)
(***************************************************************************)
EXTENDS Integers, FiniteSets, Sequences, TLC

\* ------------------------------------------------------------------ bounds
\* The longest candidate sequence a mapper returns.
MaxCands == 2

\* Node identifiers of the reference (chimera) graphs.
RefNodes == {0, 1, 2}

\* Node identifiers of the hardware (qpu) graphs.
TgtNodes == {10, 11, 12}

VARIABLES
    pc,                 \* position of the caller
    qpu_graph,          \* get_mapping: argument qpu_graph of the last call
    reference,          \* get_mapping: argument intersection_graph of the last call
    mappings,           \* get_mapping: what mapper(...) returned in the last call
    ret,                \* get_mapping: outcome of the last call
    chimera,            \* get_chip_intersection_graph: dnx.chimera_graph(...)
    pegasus_qpu_g,      \* get_chip_intersection_graph: locals of the same name
    zephyr_qpu_g,
    intersection_graph,
    pegasus_sub_g,
    pegasus_mapping,
    zephyr_sub_g,
    zephyr_mapping,
    heap,               \* the graph objects, in the order of their creation
    id_of,              \* which object each graph variable refers to
    sampleset,          \* get_energies: what qpu.sample(...) returned
    energies_ret,       \* get_energies: the returned pair
    topology_shape,     \* properties["topology"]["shape"][0] of the two samplers
    max_chimera_intersection,
    advantage_solvers,  \* demo_interface: module globals of the same name
    advantage2_solvers,
    ANNEAL_TIME_RANGES,
    ui,                 \* the properties of the page's components, by "id.property"
    job,                \* the background job of run_optimization
    class_names         \* the classNames a collapsible component has had, the latest last

chip_vars == <<chimera, pegasus_qpu_g, zephyr_qpu_g, intersection_graph,
               pegasus_sub_g, pegasus_mapping, zephyr_sub_g, zephyr_mapping>>

object_vars == <<heap, id_of>>

mapping_vars == <<qpu_graph, reference, mappings, ret, chip_vars, object_vars>>

energy_vars == <<sampleset, energies_ret>>

\* Everything outside get_mapping and get_chip_intersection_graph.
shape_vars == <<topology_shape, max_chimera_intersection>>

interface_vars == <<advantage_solvers, advantage2_solvers, ANNEAL_TIME_RANGES>>

ui_vars == <<interface_vars, ui, job>>

demo_vars == <<energy_vars, shape_vars, ui_vars, class_names>>

vars == <<pc, mapping_vars, demo_vars>>

\* ------------------------------------------------------------------ graphs
\* nx.Graph(): no nodes, no edges.
EmptyGraph == [n \in {} |-> {}]

\* nx.Graph() followed by add_nodes_from(nodes) and add_edges_from(edges):
\* every endpoint becomes a node and each edge is entered in the adjacency
\* of both of its endpoints.
GraphOf(nodes, edges) ==
    LET ns == nodes \cup {e[1] : e \in edges} \cup {e[2] : e \in edges}
    IN  [n \in ns |-> {m \in ns : <<n, m>> \in edges \/ <<m, n>> \in edges}]

\* Iterating G.edges: every edge once, reported from the endpoint that comes
\* first in the node order.
EdgesOf(G) == {e \in (DOMAIN G) \X (DOMAIN G) : e[2] \in G[e[1]] /\ e[1] <= e[2]}

\* e in list(G.edges): the tuple is looked up among the reported tuples, so
\* only the reported orientation is found.
HasEdgeListed(G, e) == e \in EdgesOf(G)

\* e in G.edges: EdgeView.__contains__ looks v up in the adjacency of u and
\* answers False when u is not a node (KeyError).
HasEdge(G, e) == e[1] \in DOMAIN G /\ e[2] \in G[e[1]]

\* A subgraph that drops the edges but keeps every node of G.
EdgeSubgraphKeepNodes(G, edges) ==
    [n \in DOMAIN G |-> {m \in G[n] : <<n, m>> \in edges \/ <<m, n>> \in edges}]

\* G.edge_subgraph(edges).copy(): the nodes are the endpoints of the given
\* edges, the edges those of G that are given (in either orientation).
EdgeSubgraph(G, edges) ==
    LET ns == {e[1] : e \in edges} \cup {e[2] : e \in edges}
    IN  [n \in ns \cap DOMAIN G |->
            {m \in G[n] : <<n, m>> \in edges \/ <<m, n>> \in edges}]

\* ---------------------------------------------------------------- mappings
\* mapping = {}
EmptyDict == [callable |-> FALSE, f |-> <<>>]

\* A candidate: a function defined on every reference node.
Mappings == {[callable |-> TRUE, f |-> g] : g \in [RefNodes -> TgtNodes]}

\* The sublattice mappings dnx enumerates are embeddings: injective.
SublatticeMappings == {m \in Mappings : \A u, v \in RefNodes : m.f[u] = m.f[v] => u = v}

\* tuple(map(m, edge))
MapEdge(m, e) == <<m.f[e[1]], m.f[e[2]]>>

\* [edge for edge in intersection_graph.edges
\*      if tuple(map(m, edge)) in qpu_graph.edges]
SurvivingEdges(m, G, qpu) == {e \in EdgesOf(G) : HasEdge(qpu, MapEdge(m, e))}

\* nx.relabel_nodes(G, mapping): a callable is applied to every node of G, a
\* dict renames the nodes it has as keys and keeps the others ({} keeps all);
\* the new graph gets the renamed nodes and the renamed edges.
Rename(mapping, n) == IF mapping.callable THEN mapping.f[n] ELSE n

RelabelNodes(G, mapping) ==
    GraphOf({Rename(mapping, n) : n \in DOMAIN G},
            {<<Rename(mapping, e[1]), Rename(mapping, e[2])>> : e \in EdgesOf(G)})

\* len(edges)
CouplerYield(m, G, qpu) == Cardinality(SurvivingEdges(m, G, qpu))

\* ------------------------------------------------------------- get_mapping
\* The loop without "coupler_yield = len(edges)": every candidate of positive
\* yield replaces the one before.
RECURSIVE SelectLoopNoYieldUpdate(_, _, _, _, _)
SelectLoopNoYieldUpdate(ms, i, best, G, qpu) ==
    IF i > Len(ms) THEN best
    ELSE IF CouplerYield(ms[i], G, qpu) > best.coupler_yield
         THEN SelectLoopNoYieldUpdate(ms, i + 1,
                  [mapping |-> ms[i], coupler_yield |-> best.coupler_yield], G, qpu)
         ELSE SelectLoopNoYieldUpdate(ms, i + 1, best, G, qpu)

\* The loop with ">=" for ">".
RECURSIVE SelectLoopGe(_, _, _, _, _)
SelectLoopGe(ms, i, best, G, qpu) ==
    IF i > Len(ms) THEN best
    ELSE IF CouplerYield(ms[i], G, qpu) >= best.coupler_yield
         THEN SelectLoopGe(ms, i + 1,
                  [mapping |-> ms[i],
                   coupler_yield |-> CouplerYield(ms[i], G, qpu)], G, qpu)
         ELSE SelectLoopGe(ms, i + 1, best, G, qpu)

\* The loop "for m in mappings": best is (mapping, coupler_yield) so far.
RECURSIVE SelectLoop(_, _, _, _, _)
SelectLoop(ms, i, best, G, qpu) ==
    IF i > Len(ms) THEN best
    ELSE IF CouplerYield(ms[i], G, qpu) > best.coupler_yield
         THEN SelectLoop(ms, i + 1,
                  [mapping |-> ms[i],
                   coupler_yield |-> CouplerYield(ms[i], G, qpu)], G, qpu)
         ELSE SelectLoop(ms, i + 1, best, G, qpu)

\* mapping = {}; coupler_yield = 0; the loop.
SelectMapping(ms, G, qpu) ==
    SelectLoop(ms, 1, [mapping |-> EmptyDict, coupler_yield |-> 0], G, qpu)

\* get_mapping that relabels the graph it was given instead of the trimmed one.
GetMappingRelabelInput(qpu, G, ms) ==
    LET mapping == SelectMapping(ms, G, qpu).mapping
    IN  IF ~mapping.callable /\ EdgesOf(G) # {}
        THEN [exc |-> "TypeError"]
        ELSE LET edges   == SurvivingEdges(mapping, G, qpu)
             IN  [exc |-> "None",
                  sub_graph |-> RelabelNodes(G, mapping),
                  intersection_graph |-> EdgeSubgraph(G, edges),
                  mapping |-> mapping]

\* get_mapping without "intersection_graph = ...edge_subgraph(edges).copy()":
\* the graph it was given is returned and relabelled untrimmed.
GetMappingNoTrim(qpu, G, ms) ==
    LET mapping == SelectMapping(ms, G, qpu).mapping
    IN  IF ~mapping.callable /\ EdgesOf(G) # {}
        THEN [exc |-> "TypeError"]
        ELSE [exc |-> "None",
              sub_graph |-> RelabelNodes(G, mapping),
              intersection_graph |-> G,
              mapping |-> mapping]

\* get_mapping(qpu_graph, intersection_graph, mapper) once the mapper has
\* returned ms.  When no candidate was selected the mapping is still the
\* dict {}: the second comprehension calls it on the first edge it meets,
\* which raises TypeError; with no edge to meet nothing is called.
GetMapping(qpu, G, ms) ==
    LET mapping == SelectMapping(ms, G, qpu).mapping
    IN  IF ~mapping.callable /\ EdgesOf(G) # {}
        THEN [exc |-> "TypeError"]
        ELSE LET edges   == SurvivingEdges(mapping, G, qpu)
                 trimmed == EdgeSubgraph(G, edges)
             IN  [exc |-> "None",
                  sub_graph |-> RelabelNodes(trimmed, mapping),
                  intersection_graph |-> trimmed,
                  mapping |-> mapping]

\* ------------------------------------------------------------------ inputs
\* The edge lists on three nodes, one for each shape: none, an edge, a path,
\* a triangle.  Every graph of up to three nodes is one of these up to the
\* names of its nodes, and the candidate mappings range over every way of
\* placing one graph on the other.
Shapes(a, b, c) == {{}, {<<a, b>>}, {<<a, b>>, <<b, c>>}, {<<a, b>>, <<b, c>>, <<a, c>>}}

\* Reference graphs: the edges of a shape, with or without isolated nodes.
RefGraphs == {GraphOf(ns, es) : ns \in {{}, {0}, {0, 1}, {0, 1, 2}}, es \in Shapes(0, 1, 2)}

\* Hardware graphs: the working couplers and the qubits they join.
QpuGraphs == {GraphOf({}, es) : es \in Shapes(10, 11, 12)}

\* Chimera graphs have edges and no isolated node.
ChimeraGraphs == {GraphOf({}, es) : es \in Shapes(0, 1, 2) \ {{}}}

CandidateSeqs(pool) == UNION {[1..n -> pool] : n \in 0..MaxCands}

NoResult == [exc |-> "None"]

\* Python's None: a value that no string, number or object of the model
\* equals.
None == <<"NoneType">>

\* get_mapping and get_chip_intersection_graph have not been called.
MappingIdle ==
    /\ qpu_graph = EmptyGraph
    /\ reference = EmptyGraph
    /\ mappings = <<>>
    /\ ret = NoResult
    /\ chimera = EmptyGraph
    /\ pegasus_qpu_g = EmptyGraph
    /\ zephyr_qpu_g = EmptyGraph
    /\ intersection_graph = EmptyGraph
    /\ pegasus_sub_g = EmptyGraph
    /\ pegasus_mapping = EmptyDict
    /\ zephyr_sub_g = EmptyGraph
    /\ zephyr_mapping = EmptyDict
    /\ heap = <<>>
    /\ id_of = <<>>

\* get_energies has not been called.
EnergyIdle ==
    /\ sampleset = None
    /\ energies_ret = None

\* The samplers' shapes have not been read.
ShapeIdle ==
    /\ topology_shape = None
    /\ max_chimera_intersection = None

\* demo_interface has not been imported.
UiIdle ==
    /\ advantage_solvers = None
    /\ advantage2_solvers = None
    /\ ANNEAL_TIME_RANGES = None
    /\ ui = None
    /\ job = None

\* No collapsible component is followed.
ToggleIdle == class_names = None

DemoIdle == EnergyIdle /\ ShapeIdle /\ UiIdle /\ ToggleIdle

\* ----------------------------------------------------------- graph objects
\* get_mapping with relabel_nodes(..., copy=False): the trimmed copy is
\* relabelled in place and returned twice.
NewGraphsInPlace(objects, r) ==
    [heap |-> Append(objects, r.sub_graph),
     intersection_graph |-> Len(objects) + 1,
     sub_graph |-> Len(objects) + 1]

\* The objects a returning call of get_mapping creates and returns:
\* edge_subgraph(edges).copy() is a new graph, and relabel_nodes, which
\* copies by default, another one.  The arguments are only read.
NewGraphs(objects, r) ==
    [heap |-> objects \o <<r.intersection_graph, r.sub_graph>>,
     intersection_graph |-> Len(objects) + 1,
     sub_graph |-> Len(objects) + 2]

\* ------------------------------------------- a call of get_mapping (Spec)
Init ==
    /\ pc = "call"
    /\ qpu_graph \in QpuGraphs
    /\ reference \in RefGraphs
    /\ mappings = <<>>
    /\ ret = NoResult
    /\ chimera = EmptyGraph
    /\ pegasus_qpu_g = EmptyGraph
    /\ zephyr_qpu_g = EmptyGraph
    /\ intersection_graph = EmptyGraph
    /\ pegasus_sub_g = EmptyGraph
    /\ pegasus_mapping = EmptyDict
    /\ zephyr_sub_g = EmptyGraph
    /\ zephyr_mapping = EmptyDict
    /\ heap = <<qpu_graph, reference>>
    /\ id_of = [qpu_graph |-> 1, reference |-> 2, intersection_graph |-> 0, sub_graph |-> 0]
    /\ DemoIdle

\* get_mapping, whole: the mapper answers, the best mapping is selected, the
\* graph is trimmed and relabelled.
GetMappingCall ==
    /\ pc = "call"
    /\ \E ms \in CandidateSeqs(Mappings) :
          /\ mappings' = ms
          /\ ret' = GetMapping(qpu_graph, reference, ms)
    /\ IF ret'.exc = "None"
       THEN /\ pc' = "returned"
            /\ heap' = NewGraphs(heap, ret').heap
            /\ id_of' = [id_of EXCEPT
                             !.intersection_graph = NewGraphs(heap, ret').intersection_graph,
                             !.sub_graph = NewGraphs(heap, ret').sub_graph]
       ELSE /\ pc' = "raised"
            /\ UNCHANGED object_vars
    /\ UNCHANGED <<qpu_graph, reference>>
    /\ UNCHANGED chip_vars
    /\ UNCHANGED demo_vars

Next == GetMappingCall

Spec == Init /\ [][Next]_vars

\* ----------------------------- get_chip_intersection_graph (SpecChip)
ChipInit ==
    /\ pc = "start"
    /\ pegasus_qpu_g \in QpuGraphs
    /\ zephyr_qpu_g \in QpuGraphs
    /\ chimera \in ChimeraGraphs
    /\ intersection_graph = chimera
    /\ qpu_graph = EmptyGraph
    /\ reference = EmptyGraph
    /\ mappings = <<>>
    /\ ret = NoResult
    /\ pegasus_sub_g = EmptyGraph
    /\ pegasus_mapping = EmptyDict
    /\ zephyr_sub_g = EmptyGraph
    /\ zephyr_mapping = EmptyDict
    /\ heap = <<pegasus_qpu_g, zephyr_qpu_g, chimera>>
    /\ id_of = [pegasus_qpu_g |-> 1, zephyr_qpu_g |-> 2, chimera |-> 3,
                intersection_graph |-> 3, pegasus_sub_g |-> 0, zephyr_sub_g |-> 0]
    /\ DemoIdle

\* The first call with its trimmed graph thrown away:
\* pegasus_sub_g, _, pegasus_mapping = get_mapping(...)
PegasusCallDropsGraph ==
    /\ pc = "start"
    /\ \E ms \in CandidateSeqs(SublatticeMappings) :
          /\ mappings' = ms
          /\ ret' = GetMapping(pegasus_qpu_g, intersection_graph, ms)
    /\ qpu_graph' = pegasus_qpu_g
    /\ reference' = intersection_graph
    /\ IF ret'.exc = "None"
       THEN /\ pc' = "pegasus_done"
            /\ pegasus_sub_g' = ret'.sub_graph
            /\ pegasus_mapping' = ret'.mapping
            /\ heap' = NewGraphs(heap, ret').heap
            /\ id_of' = [id_of EXCEPT !.pegasus_sub_g = NewGraphs(heap, ret').sub_graph]
       ELSE /\ pc' = "raised"
            /\ UNCHANGED <<pegasus_sub_g, pegasus_mapping, object_vars>>
    /\ UNCHANGED <<chimera, pegasus_qpu_g, zephyr_qpu_g, zephyr_sub_g, zephyr_mapping,
                   intersection_graph>>
    /\ UNCHANGED demo_vars

\* pegasus_sub_g, intersection_graph, pegasus_mapping = get_mapping(
\*     pegasus_qpu_g, intersection_graph, dnx.pegasus_sublattice_mappings)
PegasusCall ==
    /\ pc = "start"
    /\ \E ms \in CandidateSeqs(SublatticeMappings) :
          /\ mappings' = ms
          /\ ret' = GetMapping(pegasus_qpu_g, intersection_graph, ms)
    /\ qpu_graph' = pegasus_qpu_g
    /\ reference' = intersection_graph
    /\ IF ret'.exc = "None"
       THEN /\ pc' = "pegasus_done"
            /\ pegasus_sub_g' = ret'.sub_graph
            /\ intersection_graph' = ret'.intersection_graph
            /\ pegasus_mapping' = ret'.mapping
            /\ heap' = NewGraphs(heap, ret').heap
            /\ id_of' = [id_of EXCEPT
                             !.pegasus_sub_g = NewGraphs(heap, ret').sub_graph,
                             !.intersection_graph = NewGraphs(heap, ret').intersection_graph]
       ELSE /\ pc' = "raised"
            /\ UNCHANGED <<pegasus_sub_g, intersection_graph, pegasus_mapping, object_vars>>
    /\ UNCHANGED <<chimera, pegasus_qpu_g, zephyr_qpu_g, zephyr_sub_g, zephyr_mapping>>
    /\ UNCHANGED demo_vars

\* The second call given the untrimmed chimera graph.
ZephyrCallOnChimera ==
    /\ pc = "pegasus_done"
    /\ \E ms \in CandidateSeqs(SublatticeMappings) :
          /\ mappings' = ms
          /\ ret' = GetMapping(zephyr_qpu_g, chimera, ms)
    /\ qpu_graph' = zephyr_qpu_g
    /\ reference' = chimera
    /\ IF ret'.exc = "None"
       THEN /\ pc' = "done"
            /\ zephyr_sub_g' = ret'.sub_graph
            /\ intersection_graph' = ret'.intersection_graph
            /\ zephyr_mapping' = ret'.mapping
            /\ heap' = NewGraphs(heap, ret').heap
            /\ id_of' = [id_of EXCEPT
                             !.zephyr_sub_g = NewGraphs(heap, ret').sub_graph,
                             !.intersection_graph = NewGraphs(heap, ret').intersection_graph]
       ELSE /\ pc' = "raised"
            /\ UNCHANGED <<zephyr_sub_g, intersection_graph, zephyr_mapping, object_vars>>
    /\ UNCHANGED <<chimera, pegasus_qpu_g, zephyr_qpu_g, pegasus_sub_g, pegasus_mapping>>
    /\ UNCHANGED demo_vars

\* zephyr_sub_g, intersection_graph, zephyr_mapping = get_mapping(
\*     zephyr_qpu_g, intersection_graph, dnx.zephyr_sublattice_mappings)
ZephyrCall ==
    /\ pc = "pegasus_done"
    /\ \E ms \in CandidateSeqs(SublatticeMappings) :
          /\ mappings' = ms
          /\ ret' = GetMapping(zephyr_qpu_g, intersection_graph, ms)
    /\ qpu_graph' = zephyr_qpu_g
    /\ reference' = intersection_graph
    /\ IF ret'.exc = "None"
       THEN /\ pc' = "done"
            /\ zephyr_sub_g' = ret'.sub_graph
            /\ intersection_graph' = ret'.intersection_graph
            /\ zephyr_mapping' = ret'.mapping
            /\ heap' = NewGraphs(heap, ret').heap
            /\ id_of' = [id_of EXCEPT
                             !.zephyr_sub_g = NewGraphs(heap, ret').sub_graph,
                             !.intersection_graph = NewGraphs(heap, ret').intersection_graph]
       ELSE /\ pc' = "raised"
            /\ UNCHANGED <<zephyr_sub_g, intersection_graph, zephyr_mapping, object_vars>>
    /\ UNCHANGED <<chimera, pegasus_qpu_g, zephyr_qpu_g, pegasus_sub_g, pegasus_mapping>>
    /\ UNCHANGED demo_vars

ChipNext == PegasusCall \/ ZephyrCall

SpecChip == ChipInit /\ [][ChipNext]_vars

\* ============================================================ properties
\* The undirected edges of a graph, each as the set of its endpoints.
UEdges(G) == {{p[1], p[2]} : p \in {q \in (DOMAIN G) \X (DOMAIN G) : q[2] \in G[q[1]]}}

\* T has the undirected edge between a and b.
Joined(T, a, b) == a \in DOMAIN T /\ b \in DOMAIN T /\ (b \in T[a] \/ a \in T[b])

\* The reference edges whose image under m is an edge of T.
Kept(m, R, T) == {e \in UEdges(R) : \E u, v \in e : e = {u, v} /\ Joined(T, m.f[u], m.f[v])}

YieldOf(m, R, T) == Cardinality(Kept(m, R, T))

Called == pc \in {"returned", "raised", "pegasus_done", "done"}

Returned == Called /\ ret.exc = "None"

SomePositive == \E i \in 1..Len(mappings) : YieldOf(mappings[i], reference, qpu_graph) > 0

\* The yields of the candidates, in sequence order.
Yields(ms, R, T) == [i \in 1..Len(ms) |-> YieldOf(ms[i], R, T)]

MaxOf(ys) ==
    IF ys = <<>> THEN 0
    ELSE CHOOSE y \in {ys[i] : i \in 1..Len(ys)} : \A i \in 1..Len(ys) : ys[i] <= y

MaxYield(ms, R, T) == MaxOf(Yields(ms, R, T))

\* C1: when some candidate has a positive coupler yield, get_mapping returns
\* one of the candidates, its yield is the maximum over the candidates, and
\* the trimmed graph has that many edges.
C1_SelectedHasMaxYield ==
    (Called /\ SomePositive) =>
        LET best == MaxYield(mappings, reference, qpu_graph)
        IN  /\ ret.exc = "None"
            /\ \E i \in 1..Len(mappings) : ret.mapping = mappings[i]
            /\ YieldOf(ret.mapping, reference, qpu_graph) = best
            /\ Cardinality(UEdges(ret.intersection_graph)) = best

\* A later candidate with a strictly higher yield has replaced an earlier one
\* that had a positive yield.
C1_Witness ==
    /\ pc = "returned"
    /\ Len(mappings) = 2
    /\ YieldOf(mappings[1], reference, qpu_graph) > 0
    /\ YieldOf(mappings[2], reference, qpu_graph) > YieldOf(mappings[1], reference, qpu_graph)
    /\ ret.mapping = mappings[2]

\* C2: the trimmed graph has exactly the reference edges that survive under
\* the selected mapping, and exactly their endpoints as nodes.
C2_TrimmedIsSurvivors ==
    Returned =>
        LET kept == IF ret.mapping.callable
                    THEN Kept(ret.mapping, reference, qpu_graph) ELSE {}
        IN  /\ UEdges(ret.intersection_graph) = kept
            /\ DOMAIN ret.intersection_graph = UNION kept
            /\ \A n \in DOMAIN ret.intersection_graph :
                   \A m \in ret.intersection_graph[n] :
                       m \in DOMAIN ret.intersection_graph /\ n \in ret.intersection_graph[m]

\* An edge another candidate would keep is trimmed, and a reference node is
\* dropped.
C2_Witness ==
    /\ pc = "returned"
    /\ ret.mapping.callable
    /\ \E i \in 1..Len(mappings) :
          Kept(mappings[i], reference, qpu_graph) \ Kept(ret.mapping, reference, qpu_graph) # {}
    /\ DOMAIN ret.intersection_graph # DOMAIN reference
    /\ UEdges(ret.intersection_graph) # {}

\* C3 (as claimed): with an empty candidate sequence get_mapping raises
\* nothing and returns a zero-edge trimmed graph and the empty mapping,
\* whatever the reference graph.
C3_EmptyCandidatesReturn ==
    (Called /\ mappings = <<>>) =>
        /\ ret.exc = "None"
        /\ UEdges(ret.intersection_graph) = {}
        /\ ret.mapping = EmptyDict

\* C4 (as claimed): with candidates that all have yield 0 get_mapping raises
\* nothing and returns a zero-edge trimmed graph and the initial empty
\* mapping.
C4_AllZeroReturn ==
    (Called /\ mappings # <<>> /\ ~SomePositive) =>
        /\ ret.exc = "None"
        /\ UEdges(ret.intersection_graph) = {}
        /\ ret.mapping = EmptyDict

\* The first position of the candidate sequence that attains the maximum.
FirstMax(ms, R, T) ==
    LET ys == Yields(ms, R, T)
        y  == MaxOf(ys)
    IN  CHOOSE i \in 1..Len(ms) : ys[i] = y /\ \A j \in 1..(i - 1) : ys[j] < y

\* C5: among the candidates of maximum positive yield the first of the
\* sequence is returned.
C5_FirstMaximalWins ==
    (Called /\ SomePositive) =>
        /\ ret.exc = "None"
        /\ ret.mapping = mappings[FirstMax(mappings, reference, qpu_graph)]

\* Two different candidates tie at the positive maximum; the first is
\* returned.
C5_Witness ==
    /\ pc = "returned"
    /\ Len(mappings) = 2
    /\ mappings[1] # mappings[2]
    /\ YieldOf(mappings[1], reference, qpu_graph) > 0
    /\ YieldOf(mappings[1], reference, qpu_graph) = YieldOf(mappings[2], reference, qpu_graph)
    /\ ret.mapping = mappings[1]

\* What a node of the trimmed graph is renamed to.
Image(mapping, n) == IF mapping.callable THEN mapping.f[n] ELSE n

InjectiveOn(mapping, ns) ==
    \A u, v \in ns : Image(mapping, u) = Image(mapping, v) => u = v

\* C6: when the selected mapping is injective on the nodes of the trimmed
\* graph, sub_graph has as many nodes and as many edges as the trimmed graph,
\* its nodes are the images of the trimmed graph's nodes and its edges the
\* images of the trimmed graph's edges.
C6_SubGraphIsRenaming ==
    (Returned /\ InjectiveOn(ret.mapping, DOMAIN ret.intersection_graph)) =>
        LET T == ret.intersection_graph
            S == ret.sub_graph
        IN  /\ Cardinality(DOMAIN S) = Cardinality(DOMAIN T)
            /\ Cardinality(UEdges(S)) = Cardinality(UEdges(T))
            /\ DOMAIN S = {Image(ret.mapping, n) : n \in DOMAIN T}
            /\ \A a, b \in DOMAIN S \cup {Image(ret.mapping, n) : n \in DOMAIN T} :
                   Joined(S, a, b) <=>
                       \E u, v \in DOMAIN T :
                           /\ {u, v} \in UEdges(T)
                           /\ a = Image(ret.mapping, u)
                           /\ b = Image(ret.mapping, v)

\* An injective selected mapping has renamed a trimmed graph of two edges
\* that is smaller than the reference graph.
C6_Witness ==
    /\ pc = "returned"
    /\ ret.mapping.callable
    /\ InjectiveOn(ret.mapping, DOMAIN ret.intersection_graph)
    /\ Cardinality(UEdges(ret.intersection_graph)) = 2
    /\ Cardinality(UEdges(reference)) = 3
    /\ Cardinality(UEdges(ret.sub_graph)) = 2

\* A selected mapping that is not injective on the trimmed graph merges
\* nodes: sub_graph is smaller than the trimmed graph.
C6_MergeReached ==
    /\ pc = "returned"
    /\ ~InjectiveOn(ret.mapping, DOMAIN ret.intersection_graph)
    /\ Cardinality(DOMAIN ret.sub_graph) < Cardinality(DOMAIN ret.intersection_graph)

\* C10: the survival test does not depend on the order of the endpoints: for
\* every candidate, a reference edge passes the test in the reported order
\* iff it passes it in the reverse order iff the target has the undirected
\* edge between the images, however the target reports that edge; so the
\* yield counted over the reversed edge list is the same.
C10_OrderInsensitive ==
    Called =>
        \A i \in 1..Len(mappings) :
            LET m == mappings[i]
                reversed == {<<e[2], e[1]>> : e \in EdgesOf(reference)}
            IN  /\ \A e \in EdgesOf(reference) :
                       /\ HasEdge(qpu_graph, MapEdge(m, e))
                              = HasEdge(qpu_graph, MapEdge(m, <<e[2], e[1]>>))
                       /\ HasEdge(qpu_graph, MapEdge(m, e))
                              = Joined(qpu_graph, m.f[e[1]], m.f[e[2]])
                /\ CouplerYield(m, reference, qpu_graph)
                       = Cardinality({e \in reversed : HasEdge(qpu_graph, MapEdge(m, e))})
                /\ CouplerYield(m, reference, qpu_graph) = YieldOf(m, reference, qpu_graph)

\* The selected mapping sends a reference edge to a target edge that the
\* target reports in the opposite order, and the edge survives.
C10_Witness ==
    /\ pc = "returned"
    /\ ret.mapping.callable
    /\ \E e \in EdgesOf(reference) :
          /\ <<ret.mapping.f[e[2]], ret.mapping.f[e[1]]>> \in EdgesOf(qpu_graph)
          /\ MapEdge(ret.mapping, e) \notin EdgesOf(qpu_graph)
          /\ {e[1], e[2]} \in UEdges(ret.intersection_graph)

\* The images of a set of undirected edges under a mapping.
ImageEdges(mapping, E) == {{Image(mapping, u) : u \in e} : e \in E}

\* The chimera edges that survive in the Pegasus graph under the Pegasus
\* mapping.
PegasusKept == Kept(pegasus_mapping, chimera, pegasus_qpu_g)

\* C7: every edge of the intersection graph get_chip_intersection_graph
\* returns is a Pegasus edge under the Pegasus mapping and a Zephyr edge
\* under the Zephyr mapping.
C7_IntersectionInBoth ==
    pc = "done" =>
        \A e \in UEdges(intersection_graph) :
            \E u, v \in e :
                /\ e = {u, v}
                /\ Joined(pegasus_qpu_g, pegasus_mapping.f[u], pegasus_mapping.f[v])
                /\ Joined(zephyr_qpu_g, zephyr_mapping.f[u], zephyr_mapping.f[v])

\* Both calls returned, the two mappings differ, and the final graph keeps
\* some chimera edges and has lost others.
C7_Witness ==
    /\ pc = "done"
    /\ pegasus_mapping # zephyr_mapping
    /\ UEdges(intersection_graph) # {}
    /\ UEdges(intersection_graph) # UEdges(chimera)
    /\ \E e \in UEdges(chimera) \ UEdges(intersection_graph) :
          \E u, v \in e : e = {u, v}
              /\ Joined(zephyr_qpu_g, zephyr_mapping.f[u], zephyr_mapping.f[v])

\* C8: the graph the Zephyr call returns is a subgraph of the graph the
\* Pegasus call returned, which is the graph the Zephyr call was given; it
\* is a proper subgraph whenever an edge that survived under the Pegasus
\* mapping does not survive under the selected Zephyr mapping.
C8_SecondIsSubgraphOfFirst ==
    [][/\ (pc = "start" /\ pc' = "pegasus_done") =>
              intersection_graph' = ret'.intersection_graph
       /\ (pc = "pegasus_done" /\ pc' = "done") =>
              /\ reference' = intersection_graph
              /\ intersection_graph' = ret'.intersection_graph
              /\ UEdges(intersection_graph') \subseteq UEdges(intersection_graph)
              /\ DOMAIN intersection_graph' \subseteq DOMAIN intersection_graph
              /\ (\E e \in UEdges(intersection_graph) :
                      e \notin Kept(zephyr_mapping', intersection_graph, zephyr_qpu_g))
                     => UEdges(intersection_graph') # UEdges(intersection_graph)]_vars

\* The Zephyr call returned a proper subgraph, with fewer nodes, of what the
\* Pegasus call returned.
C8_Witness ==
    /\ pc = "done"
    /\ UEdges(reference) = PegasusKept
    /\ UEdges(intersection_graph) # {}
    /\ UEdges(intersection_graph) # UEdges(reference)
    /\ UEdges(intersection_graph) \subseteq UEdges(reference)
    /\ DOMAIN intersection_graph # DOMAIN reference

\* C9: the Pegasus mapping is the first of maximum yield over the untrimmed
\* chimera graph and the Pegasus sub_graph is the relabelling of the graph
\* trimmed by Pegasus only, also after the Zephyr call; the Zephyr mapping
\* is the first of maximum yield over the Pegasus-trimmed graph and the
\* Zephyr sub_graph is the relabelling of the final intersection graph.
C9_OrderedAsymmetric ==
    /\ pc = "pegasus_done" =>
          /\ reference = chimera
          /\ pegasus_mapping = mappings[FirstMax(mappings, chimera, pegasus_qpu_g)]
          /\ UEdges(intersection_graph) = PegasusKept
          /\ UEdges(pegasus_sub_g) = ImageEdges(pegasus_mapping, PegasusKept)
    /\ pc = "done" =>
          /\ UEdges(reference) = PegasusKept
          /\ zephyr_mapping = mappings[FirstMax(mappings, reference, zephyr_qpu_g)]
          /\ UEdges(intersection_graph) = Kept(zephyr_mapping, reference, zephyr_qpu_g)
          /\ UEdges(zephyr_sub_g) = ImageEdges(zephyr_mapping, UEdges(intersection_graph))
          /\ UEdges(pegasus_sub_g) = ImageEdges(pegasus_mapping, PegasusKept)

\* After both calls the Pegasus sub_graph holds the image of an edge that is
\* not in the final intersection graph, and the Zephyr mapping is not the
\* one its candidates would give over the untrimmed chimera graph.
C9_Witness ==
    /\ pc = "done"
    /\ \E e \in PegasusKept \ UEdges(intersection_graph) :
          {Image(pegasus_mapping, u) : u \in e} \in UEdges(pegasus_sub_g)
    /\ zephyr_mapping # mappings[FirstMax(mappings, chimera, zephyr_qpu_g)]
    /\ UEdges(pegasus_sub_g) # ImageEdges(pegasus_mapping, UEdges(intersection_graph))

\* ---------------------------------------------------- full-yield candidates
NoIsolatedNode(G) == \A n \in DOMAIN G : G[n] # {}

\* Some candidate sends every reference edge onto a target edge.
SomeFullYield ==
    \E i \in 1..Len(mappings) :
        YieldOf(mappings[i], reference, qpu_graph) = Cardinality(UEdges(reference))

\* C11: when the reference graph has no isolated node and some candidate
\* maps every reference edge onto a target edge, nothing is trimmed: the
\* trimmed graph is the input reference graph, the selected yield is the
\* number of reference edges, and the edges of sub_graph are exactly the
\* images of the reference edges.
C11_NothingTrimmed ==
    (Called /\ NoIsolatedNode(reference) /\ SomeFullYield) =>
        /\ ret.exc = "None"
        /\ ret.intersection_graph = reference
        /\ YieldOf(ret.mapping, reference, qpu_graph) = Cardinality(UEdges(reference))
        /\ UEdges(ret.sub_graph) = ImageEdges(ret.mapping, UEdges(reference))

\* A path of two edges is kept whole by the second candidate, after a first
\* candidate that would have kept one edge only.
C11_Witness ==
    /\ pc = "returned"
    /\ NoIsolatedNode(reference)
    /\ Cardinality(UEdges(reference)) = 2
    /\ Len(mappings) = 2
    /\ YieldOf(mappings[1], reference, qpu_graph) = 1
    /\ YieldOf(mappings[2], reference, qpu_graph) = 2
    /\ ret.intersection_graph = reference
    /\ Cardinality(UEdges(ret.sub_graph)) = 2

\* ------------------------------------------------ get_energies (SpecEnergy)
\* The most rows of sampleset.record and the most occurrences of a row.
MaxRows == 3

MaxOcc == 2

\* Sample energies.
Energies == {100, 200, 300}

\* sampleset.info: the empty dict or some timing information.
Infos == {<<>>, [qpu_access_time |-> 1]}

\* sampleset.record: rows of an energy and a number of occurrences.
Records ==
    UNION {[1..n -> [energy : Energies, num_occurrences : 0..MaxOcc]] : n \in 0..MaxRows}

\* for _ in range(o) around one value.  The same with one occurrence per row
\* first: the occurrences are not read.
RepeatOnce(e, o) == <<e>>

Repeat(e, o) == [k \in 1..o |-> e]

\* [e for e, o in zip(record.energy, record.num_occurrences) for _ in range(o)]
RECURSIVE ExpandEnergies(_)
ExpandEnergies(record) ==
    IF record = <<>> THEN <<>>
    ELSE Repeat(Head(record).energy, Head(record).num_occurrences)
             \o ExpandEnergies(Tail(record))

\* get_energies from the sampler's answer on: return energies, sampleset.info
GetEnergies(ss) == <<ExpandEnergies(ss.record), ss.info>>

EnergyInit ==
    /\ pc = "get_energies"
    /\ EnergyIdle
    /\ ShapeIdle
    /\ UiIdle
    /\ ToggleIdle
    /\ MappingIdle

\* get_energies, whole: the relabelled model is sampled, the sampler
\* answers, the energies are expanded.
GetEnergiesCall ==
    /\ pc = "get_energies"
    /\ \E record \in Records, info \in Infos :
          sampleset' = [record |-> record, info |-> info]
    /\ energies_ret' = GetEnergies(sampleset')
    /\ pc' = "energies_returned"
    /\ UNCHANGED <<mapping_vars, shape_vars, ui_vars, class_names>>

EnergyNext == GetEnergiesCall

SpecEnergy == EnergyInit /\ [][EnergyNext]_vars

\* The occurrences of the rows before row i, added up.
RECURSIVE OccBefore(_, _)
OccBefore(record, i) ==
    IF i <= 1 THEN 0 ELSE OccBefore(record, i - 1) + record[i - 1].num_occurrences

\* C12: get_energies returns the energy of every row repeated as many times
\* as the row occurs, consecutively and in record order: the list is as long
\* as the occurrences add up to, a row of zero occurrences contributes
\* nothing, and the second value is sampleset.info unchanged.
C12_EnergiesExpanded ==
    pc = "energies_returned" =>
        LET record == sampleset.record
            out    == energies_ret[1]
        IN  /\ Len(out) = OccBefore(record, Len(record) + 1)
            /\ \A i \in 1..Len(record) :
                   \A k \in 1..record[i].num_occurrences :
                       out[OccBefore(record, i) + k] = record[i].energy
            /\ energies_ret[2] = sampleset.info

\* The sample set of the repository's test with a row of no occurrence put
\* in: energies 100, 200, 300 occurring once, twice and not at all.
C12_Witness ==
    /\ pc = "energies_returned"
    /\ Len(sampleset.record) = 3
    /\ sampleset.record[1] = [energy |-> 100, num_occurrences |-> 1]
    /\ sampleset.record[2] = [energy |-> 200, num_occurrences |-> 2]
    /\ sampleset.record[3] = [energy |-> 300, num_occurrences |-> 0]
    /\ energies_ret[1] = <<100, 200, 200>>
    /\ sampleset.info # <<>>

\* ------------------------------- the size of the chimera graph (SpecShape)
\* The largest first entries of the Pegasus and Zephyr topology shapes.
MaxPegasusShape == 17

MaxZephyrShape == 8

\* Python's min of two numbers.  The larger of the two first.
Larger(a, b) == IF a >= b THEN a ELSE b

Min(a, b) == IF a <= b THEN a ELSE b

\* max_chimera_intersection = min(pegasus shape[0] - 1, zephyr shape[0] * 2)
MaxChimeraIntersection(p, z) == Min(p - 1, z * 2)

ShapeInit ==
    /\ pc = "shapes"
    /\ \E p \in 1..MaxPegasusShape, z \in 1..MaxZephyrShape :
          topology_shape = [pegasus |-> p, zephyr |-> z]
    /\ max_chimera_intersection = None
    /\ EnergyIdle
    /\ UiIdle
    /\ ToggleIdle
    /\ MappingIdle

\* get_chip_intersection_graph up to the chimera graph: the size is computed
\* from the two shapes.
ChimeraSize ==
    /\ pc = "shapes"
    /\ max_chimera_intersection' =
           MaxChimeraIntersection(topology_shape.pegasus, topology_shape.zephyr)
    /\ pc' = "sized"
    /\ UNCHANGED <<topology_shape, mapping_vars, energy_vars, ui_vars, class_names>>

ShapeNext == ChimeraSize

SpecShape == ShapeInit /\ [][ShapeNext]_vars

\* C13: the chimera graph has size min(P - 1, 2 * Z) for Pegasus shape entry
\* P and Zephyr shape entry Z: the size is one of the two terms and exceeds
\* neither; P = 17 gives the term 16 and so does Z = 8.
C13_ChimeraSize ==
    pc = "sized" =>
        LET P == topology_shape.pegasus
            Z == topology_shape.zephyr
            m == max_chimera_intersection
        IN  /\ m \in {P - 1, 2 * Z}
            /\ m <= P - 1
            /\ m <= 2 * Z
            /\ P = 17 => m <= 16
            /\ Z = 8 => m <= 16
            /\ (P = 17 /\ Z = 8) => m = 16

\* The shapes of the repository's test: both terms are 16.
C13_Witness ==
    /\ pc = "sized"
    /\ topology_shape = [pegasus |-> 17, zephyr |-> 8]
    /\ max_chimera_intersection = 16

\* ------------------------------------------------------------ solver names
\* A string is the sequence of its pieces; "_" is a piece of its own, and so
\* is "Advantage" wherever it occurs.
DEFAULT_ADVANTAGE2 == <<"Advantage", "2", "_", "system1.2">>

DEFAULT_ADVANTAGE == <<"Advantage", "_", "system4.1">>

NoLeapAccess == <<"No Leap Access">>

\* The names a client may report: two Advantage systems, an Advantage2
\* system and a solver of another family.
SolverNames ==
    {DEFAULT_ADVANTAGE, <<"Advantage", "_", "system6.4">>, DEFAULT_ADVANTAGE2,
     <<"DW", "_", "2000Q", "_", "6">>}

\* The most solvers a client reports.
MaxSolvers == 3

\* client.get_solvers(): some of the names, in some order.
SolverSeqs ==
    {q \in UNION {[1..n -> SolverNames] : n \in 0..MaxSolvers} :
        \A i, j \in 1..Len(q) : q[i] = q[j] => i = j}

\* s.split("_")[0]: what comes before the first "_", all of s without one.
SplitHead(s) ==
    LET at == {i \in 1..Len(s) : s[i] = "_"}
    IN  IF at = {} THEN s
        ELSE SubSeq(s, 1, (CHOOSE i \in at : \A j \in at : i <= j) - 1)

\* word in s, for a word that is a piece.
Contains(s, word) == \E i \in 1..Len(s) : s[i] = word

IsAdvantage(solver) == SplitHead(solver) = <<"Advantage">>

IsAdvantage2(solver) == SplitHead(solver) = <<"Advantage", "2">>

\* The annealing-time ranges a solver's properties hold, in one unit.
Properties(solver) ==
    IF IsAdvantage2(solver)
    THEN [fast |-> <<1, 9>>, standard |-> <<3, 7>>]
    ELSE [fast |-> <<2, 8>>, standard |-> <<2, 6>>]

\* The try block of demo_interface with a fallback for each family on its
\* own.
SolverListsPerFamily(failure, qpus) ==
    LET advantage  == SelectSeq(qpus, IsAdvantage)
        advantage2 == SelectSeq(qpus, IsAdvantage2)
    IN  [advantage_solvers |->
             IF failure # "none" \/ Len(advantage) = 0 THEN <<NoLeapAccess>> ELSE advantage,
         advantage2_solvers |->
             IF failure # "none" \/ Len(advantage2) = 0 THEN <<NoLeapAccess>> ELSE advantage2]

\* The try block of demo_interface: the two families are filtered out of the
\* names; a failure of the client, or an empty family, ends in the except
\* clause, which sets both lists to the fallback.
SolverLists(failure, qpus) ==
    LET advantage  == SelectSeq(qpus, IsAdvantage)
        advantage2 == SelectSeq(qpus, IsAdvantage2)
    IN  IF failure # "none" \/ Len(advantage) = 0 \/ Len(advantage2) = 0
        THEN [advantage_solvers |-> <<NoLeapAccess>>, advantage2_solvers |-> <<NoLeapAccess>>]
        ELSE [advantage_solvers |-> advantage, advantage2_solvers |-> advantage2]

\* ------------------------------------------------------- the page's layout
\* A number held by a property that may also hold None.
Num(n) == <<"number", n>>

\* not v, for None, numbers and strings.
Falsy(v) == v = None \/ v = Num(0) \/ v = <<>>

\* Python's max of two numbers.  The smaller of the two first.
Smaller(a, b) == IF a <= b THEN a ELSE b

Max(a, b) == IF a >= b THEN a ELSE b

\* The elements of a list.
Range(q) == {q[i] : i \in 1..Len(q)}

\* X if X in solvers else solvers[0]
DefaultOr(default, solvers) == IF default \in Range(solvers) THEN default ELSE solvers[1]

\* create_interface: the properties the callbacks read and write, as the
\* layout sets them.  The annealing-time bounds are those of
\* generate_settings_form.
Layout(advantage_list, advantage2_list, ranges) ==
    LET advantage  == DefaultOr(DEFAULT_ADVANTAGE, advantage_list)
        advantage2 == DefaultOr(DEFAULT_ADVANTAGE2, advantage2_list)
        real       == IsAdvantage(advantage) /\ IsAdvantage2(advantage2)
    IN  ("advantage-setting.value" :> advantage)
        @@ ("advantage2-setting.value" :> advantage2)
        @@ ("anneal-type-setting.value" :> 0)
        @@ ("annealing-time-setting.value" :> Num(500))
        @@ ("annealing-time-setting.min" :>
                IF real THEN Max(ranges[advantage].standard[1], ranges[advantage2].standard[1])
                ELSE 0)
        @@ ("annealing-time-setting.max" :>
                IF real THEN Min(ranges[advantage].standard[2], ranges[advantage2].standard[2])
                ELSE 0)
        @@ ("anneal-time-help.children" :> None)
        @@ ("run-button.disabled" :> TRUE)
        @@ ("run-button.className" :> None)
        @@ ("cancel-button.className" :> <<"display-none">>)
        @@ ("results-tab.disabled" :> TRUE)
        @@ ("results-tab.label" :> <<"Results">>)
        @@ ("tabs.value" :> <<"input-tab">>)
        @@ ("advantage-graph.figure" :> None)
        @@ ("advantage2-graph.figure" :> None)
        @@ ("chimera-g.data" :> None)
        @@ ("best-mapping.data" :> None)
        @@ ("results-graph.figure" :> None)
        @@ ("problem-details.children" :> None)

\* ----------------------------------------------------------- the callbacks
\* What a callback gives back: the values of its outputs, or an exception.
Returns(outputs) == [raised |-> <<>>, outputs |-> outputs]

Raises(exception) == [raised |-> exception, outputs |-> <<>>]

PreventUpdate == Raises(<<"PreventUpdate">>)

\* base64.b64encode(pickle.dumps(obj)) and its inverse.
serialize(obj) == <<"b64", <<"pickle", obj>>>>

deserialize(str) == str[2][2]

\* What get_chip_intersection_graph returns for two solver names: the two
\* figures, the intersection graph and the dict of the two mappings.
ChipResult(pegasus_qpu_name, zephyr_qpu_name) ==
    [fig  |-> <<"figure", pegasus_qpu_name>>,
     fig2 |-> <<"figure", zephyr_qpu_name>>,
     intersection_graph |-> <<"intersection", pegasus_qpu_name, zephyr_qpu_name>>,
     best_mapping |-> (pegasus_qpu_name :> <<"pegasus_mapping">>)
                          @@ (zephyr_qpu_name :> <<"zephyr_mapping">>)]

\* How a call of get_chip_intersection_graph ends: it returns, or get_mapping
\* raises the TypeError of a dict that is called.
ChipOutcomes == {<<>>, <<"TypeError">>}

\* The guard shared by render_initial_state and update_anneal_time.
NoRealSelection(advantage_system, advantage2_system) ==
    \/ Falsy(advantage_system)
    \/ Falsy(advantage2_system)
    \/ ~Contains(SplitHead(advantage_system), "Advantage")

\* render_initial_state with its guard left out.
render_initial_state_unguarded(advantage_system, advantage2_system, chip) ==
    IF chip # <<>> THEN Raises(chip)
    ELSE LET r == ChipResult(advantage_system, advantage2_system)
         IN  Returns(<<r.fig, r.fig2, serialize(r.intersection_graph),
                       serialize(r.best_mapping), FALSE>>)

\* render_initial_state; chip is how its call of get_chip_intersection_graph
\* ends.
render_initial_state(advantage_system, advantage2_system, chip) ==
    IF NoRealSelection(advantage_system, advantage2_system) THEN PreventUpdate
    ELSE IF chip # <<>> THEN Raises(chip)
    ELSE LET r == ChipResult(advantage_system, advantage2_system)
         IN  Returns(<<r.fig, r.fig2, serialize(r.intersection_graph),
                       serialize(r.best_mapping), FALSE>>)

\* validate_anneal_time with the test the other way round.
validate_anneal_time_inverted(anneal_time) == Returns(<<~Falsy(anneal_time)>>)

\* validate_anneal_time
validate_anneal_time(anneal_time) == Returns(<<Falsy(anneal_time)>>)

\* Dash writes a callback's outputs into the page when the callback returns,
\* and nothing when it raises.
Write(page, ids, result) ==
    IF result.raised # <<>> THEN page
    ELSE [k \in DOMAIN page |->
             IF \E i \in 1..Len(ids) : ids[i] = k
             THEN result.outputs[CHOOSE i \in 1..Len(ids) : ids[i] = k]
             ELSE page[k]]

\* AnnealType.STANDARD.value and AnnealType.FAST.value
STANDARD == 0

FAST == 1

\* update_anneal_time over the module's ANNEAL_TIME_RANGES; a name the dict
\* does not hold raises KeyError.
update_anneal_time(ranges, advantage_system, advantage2_system, anneal_type) ==
    IF NoRealSelection(advantage_system, advantage2_system) THEN PreventUpdate
    ELSE IF advantage_system \notin DOMAIN ranges \/ advantage2_system \notin DOMAIN ranges
    THEN Raises(<<"KeyError">>)
    ELSE LET type       == IF anneal_type = STANDARD THEN "standard" ELSE "fast"
             min_anneal == Max(ranges[advantage_system][type][1],
                               ranges[advantage2_system][type][1])
             max_anneal == Min(ranges[advantage_system][type][2],
                               ranges[advantage2_system][type][2])
         IN  Returns(<<min_anneal, max_anneal,
                       <<"Must be between ", min_anneal, " and ", max_anneal>>>>)

\* run_optimization from the two stores on: an empty store cannot be
\* deserialized; otherwise the figure and the table of the two sample sets
\* are returned.
run_optimization(chimera_g, best_mapping) ==
    IF chimera_g = None \/ best_mapping = None THEN Raises(<<"AttributeError">>)
    ELSE Returns(<<<<"figure", deserialize(chimera_g), deserialize(best_mapping)>>,
                   <<"problem details">>>>)

RenderOutputs ==
    <<"advantage-graph.figure", "advantage2-graph.figure", "chimera-g.data",
      "best-mapping.data", "run-button.disabled">>

AnnealOutputs ==
    <<"annealing-time-setting.min", "annealing-time-setting.max", "anneal-time-help.children">>

RunOutputs == <<"results-graph.figure", "problem-details.children">>

\* running= of run_optimization with the two values of every entry swapped.
RunningSwapped ==
    [ids   |-> <<"cancel-button.className", "run-button.className", "results-tab.disabled",
                 "results-tab.label", "tabs.value">>,
     while |-> <<<<"display-none">>, <<>>, FALSE, <<"Results">>, <<"input-tab">>>>,
     after |-> <<<<>>, <<"display-none">>, TRUE, <<"Loading...">>, <<"input-tab">>>>]

\* running= of run_optimization: the properties Dash sets while the job runs
\* and sets back when it ends.
Running ==
    [ids   |-> <<"cancel-button.className", "run-button.className", "results-tab.disabled",
                 "results-tab.label", "tabs.value">>,
     while |-> <<<<>>, <<"display-none">>, TRUE, <<"Loading...">>, <<"input-tab">>>>,
     after |-> <<<<"display-none">>, <<>>, FALSE, <<"Results">>, <<"input-tab">>>>]

NoJob == [running |-> FALSE, result |-> None]

\* ------------------------------------------------------- the page (SpecUI)
\* What the user may leave in the annealing-time input: nothing, zero, the
\* value of the layout.
AnnealTimes == {None, Num(0), Num(500)}

UiInit ==
    /\ pc = "import"
    /\ UiIdle
    /\ ToggleIdle
    /\ EnergyIdle
    /\ ShapeIdle
    /\ MappingIdle

\* demo_interface is imported and create_interface builds the page: the
\* client answers with solvers or fails, at from_config or at the second
\* get_solvers.
LoadInterface ==
    /\ pc = "import"
    /\ \E failure \in {"none", "from_config", "get_solvers"}, qpus \in SolverSeqs :
          LET lists  == SolverLists(failure, qpus)
              ranges == [n \in Range(qpus) |-> Properties(n)]
          IN  /\ failure = "from_config" => qpus = <<>>
              /\ advantage_solvers' = lists.advantage_solvers
              /\ advantage2_solvers' = lists.advantage2_solvers
              /\ ANNEAL_TIME_RANGES' = ranges
              /\ ui' = Layout(lists.advantage_solvers, lists.advantage2_solvers, ranges)
    /\ job' = NoJob
    /\ pc' = "page_load"
    /\ UNCHANGED <<class_names, mapping_vars, energy_vars, shape_vars>>

\* The two callbacks that have the system dropdowns as inputs, fired on the
\* page as it stands; their outputs are disjoint.
FireSystemCallbacks(page, chip) ==
    LET advantage_system  == page["advantage-setting.value"]
        advantage2_system == page["advantage2-setting.value"]
        rendered == Write(page, RenderOutputs,
                          render_initial_state(advantage_system, advantage2_system, chip))
    IN  Write(rendered, AnnealOutputs,
              update_anneal_time(ANNEAL_TIME_RANGES, advantage_system, advantage2_system,
                                 page["anneal-type-setting.value"]))

\* The page is loaded: the callbacks without prevent_initial_call fire.
PageLoad ==
    /\ pc = "page_load"
    /\ \E chip \in ChipOutcomes : ui' = FireSystemCallbacks(ui, chip)
    /\ pc' = "ready"
    /\ UNCHANGED <<interface_vars, job, class_names, mapping_vars, energy_vars, shape_vars>>

\* The user picks another option of one of the two system dropdowns.
SelectSystem ==
    /\ pc = "ready"
    /\ \E chip \in ChipOutcomes :
          \/ \E v \in Range(advantage_solvers) \ {ui["advantage-setting.value"]} :
                ui' = FireSystemCallbacks([ui EXCEPT !["advantage-setting.value"] = v], chip)
          \/ \E v \in Range(advantage2_solvers) \ {ui["advantage2-setting.value"]} :
                ui' = FireSystemCallbacks([ui EXCEPT !["advantage2-setting.value"] = v], chip)
    /\ UNCHANGED <<pc, interface_vars, job, class_names, mapping_vars, energy_vars, shape_vars>>

\* The user picks the other anneal type: update_anneal_time fires.
SelectAnnealType ==
    /\ pc = "ready"
    /\ \E t \in {STANDARD, FAST} \ {ui["anneal-type-setting.value"]} :
          ui' = Write([ui EXCEPT !["anneal-type-setting.value"] = t], AnnealOutputs,
                      update_anneal_time(ANNEAL_TIME_RANGES, ui["advantage-setting.value"],
                                         ui["advantage2-setting.value"], t))
    /\ UNCHANGED <<pc, interface_vars, job, class_names, mapping_vars, energy_vars, shape_vars>>

\* The user changes the annealing time: validate_anneal_time fires.
EditAnnealTime ==
    /\ pc = "ready"
    /\ \E v \in AnnealTimes \ {ui["annealing-time-setting.value"]} :
          ui' = Write([ui EXCEPT !["annealing-time-setting.value"] = v],
                      <<"run-button.disabled">>, validate_anneal_time(v))
    /\ UNCHANGED <<pc, interface_vars, job, class_names, mapping_vars, energy_vars, shape_vars>>

\* The user picks the other tab; a disabled tab cannot be picked.
SelectTab ==
    /\ pc = "ready"
    /\ \E t \in {<<"input-tab">>, <<"results-tab">>} \ {ui["tabs.value"]} :
          /\ t = <<"results-tab">> => ~ui["results-tab.disabled"]
          /\ ui' = [ui EXCEPT !["tabs.value"] = t]
    /\ UNCHANGED <<pc, interface_vars, job, class_names, mapping_vars, energy_vars, shape_vars>>

\* The user clicks the run button: the background job starts on the stores
\* as they are, and Dash sets the running= properties.
RunClick ==
    /\ pc = "ready"
    /\ ~job.running
    /\ ~ui["run-button.disabled"]
    /\ ui["run-button.className"] # <<"display-none">>
    /\ job' = [running |-> TRUE,
               result  |-> run_optimization(ui["chimera-g.data"], ui["best-mapping.data"])]
    /\ ui' = Write(ui, Running.ids, Returns(Running.while))
    /\ UNCHANGED <<pc, interface_vars, class_names, mapping_vars, energy_vars, shape_vars>>

\* The job ends, with a result or an exception: its outputs are written and
\* the running= properties are set back.
JobEnds ==
    /\ pc = "ready"
    /\ job.running
    /\ ui' = Write(Write(ui, RunOutputs, job.result), Running.ids, Returns(Running.after))
    /\ job' = NoJob
    /\ UNCHANGED <<pc, interface_vars, class_names, mapping_vars, energy_vars, shape_vars>>

\* The user clicks the cancel button: the job is ended without a result and
\* the running= properties are set back.
CancelClick ==
    /\ pc = "ready"
    /\ job.running
    /\ ui["cancel-button.className"] # <<"display-none">>
    /\ ui' = Write(ui, Running.ids, Returns(Running.after))
    /\ job' = NoJob
    /\ UNCHANGED <<pc, interface_vars, class_names, mapping_vars, energy_vars, shape_vars>>

UiNext ==
    \/ LoadInterface
    \/ PageLoad
    \/ SelectSystem
    \/ SelectAnnealType
    \/ EditAnnealTime
    \/ SelectTab
    \/ RunClick
    \/ JobEnds
    \/ CancelClick

SpecUI == UiInit /\ [][UiNext]_vars

\* C14 (as claimed): in every state of the loaded page an annealing-time
\* input that is empty or zero implies that the run button is disabled.
C14_NoTimeMeansDisabled ==
    pc = "ready" =>
        (Falsy(ui["annealing-time-setting.value"]) => ui["run-button.disabled"])

\* ------------------------------------------ toggle_left_column (SpecToggle)
\* The longest class string, in pieces, and the most clicks on a trigger.
MaxClassLen == 5

MaxClicks == 2

\* The pieces of a class string: the space, the word "collapsed" and two
\* letters.
ClassPieces == {" ", "collapsed", "a", "b"}

\* The classNames a component may have in the layout: any string, or none.
ClassStrings == UNION {[1..n -> ClassPieces] : n \in 0..MaxClassLen} \cup {None}

\* The position of the first space of s, 0 without one.
FirstSpace(s) ==
    LET at == {i \in 1..Len(s) : s[i] = " "}
    IN  IF at = {} THEN 0 ELSE CHOOSE i \in at : \A j \in at : i <= j

\* s.split(" "): the pieces between the spaces, empty strings included.
RECURSIVE Split(_)
Split(s) ==
    LET i == FirstSpace(s)
    IN  IF i = 0 THEN <<s>>
        ELSE <<SubSeq(s, 1, i - 1)>> \o Split(SubSeq(s, i + 1, Len(s)))

\* " ".join(classes)
RECURSIVE Join(_)
Join(classes) ==
    IF classes = <<>> THEN <<>>
    ELSE IF Len(classes) = 1 THEN classes[1]
    ELSE classes[1] \o <<" ">> \o Join(Tail(classes))

\* classes.remove(x): the list without the first occurrence of x.
Remove(classes, x) ==
    LET i == CHOOSE k \in 1..Len(classes) :
                 classes[k] = x /\ \A j \in 1..(k - 1) : classes[j] # x
    IN  SubSeq(classes, 1, i - 1) \o SubSeq(classes, i + 1, Len(classes))

\* toggle_left_column that never removes the class.
toggle_append_only(to_collapse_class) ==
    IF to_collapse_class = None \/ to_collapse_class = <<>> THEN <<"collapsed">>
    ELSE to_collapse_class \o <<" ", "collapsed">>

\* toggle_left_column
toggle_left_column(to_collapse_class) ==
    LET empty   == to_collapse_class = None \/ to_collapse_class = <<>>
        classes == IF empty THEN <<>> ELSE Split(to_collapse_class)
    IN  IF \E i \in 1..Len(classes) : classes[i] = <<"collapsed">>
        THEN Join(Remove(classes, <<"collapsed">>))
        ELSE IF empty THEN <<"collapsed">>
        ELSE to_collapse_class \o <<" ", "collapsed">>

ToggleInit ==
    /\ pc = "toggle"
    /\ \E c \in ClassStrings : class_names = <<c>>
    /\ UiIdle
    /\ EnergyIdle
    /\ ShapeIdle
    /\ MappingIdle

\* A click on the collapse trigger: the callback reads the className and
\* writes the toggled one.
CollapseClick ==
    /\ pc = "toggle"
    /\ Len(class_names) <= MaxClicks
    /\ class_names' = Append(class_names, toggle_left_column(class_names[Len(class_names)]))
    /\ UNCHANGED <<pc, ui_vars, mapping_vars, energy_vars, shape_vars>>

ToggleNext == CollapseClick

SpecToggle == ToggleInit /\ [][ToggleNext]_vars

\* The tokens of a class string; none for the empty or missing string.
Tokens(c) == IF c = None \/ c = <<>> THEN <<>> ELSE Split(c)

IsCollapsed(token) == token = <<"collapsed">>

IsOther(token) == token # <<"collapsed">>

HasCollapsed(c) == \E i \in 1..Len(Tokens(c)) : IsCollapsed(Tokens(c)[i])

\* Single-space-separated tokens, at most one of them 'collapsed'; the empty
\* and the missing string included.
WellFormed(c) ==
    /\ \A i \in 1..Len(Tokens(c)) : Tokens(c)[i] # <<>>
    /\ Len(SelectSeq(Tokens(c), IsCollapsed)) <= 1

\* One call on a well-formed string: 'collapsed' is there afterwards iff it
\* was not before, and the other tokens are kept in order.
ToggledOnce(c, d) ==
    /\ HasCollapsed(d) <=> ~HasCollapsed(c)
    /\ SelectSeq(Tokens(d), IsOther) = SelectSeq(Tokens(c), IsOther)

\* C15 (as claimed): for a well-formed class string, one call toggles
\* 'collapsed' and keeps the other tokens in order, and two consecutive
\* calls return the original class string.
C15_TwoCallsRestore ==
    WellFormed(class_names[1]) =>
        /\ \A i \in 1..(Len(class_names) - 1) : ToggledOnce(class_names[i], class_names[i + 1])
        /\ Len(class_names) >= 3 => class_names[3] = class_names[1]

\* 'collapsed' is absent from c or is its last token.
CollapsedLastOrAbsent(c) ==
    \A i \in 1..Len(Tokens(c)) : IsCollapsed(Tokens(c)[i]) => i = Len(Tokens(c))

\* C15 (amended): for a well-formed class string, one call toggles
\* 'collapsed' and keeps the other tokens in order; two consecutive calls
\* return a string with the same tokens whose 'collapsed' token, if any, is
\* the last one: the original string when it is not missing and 'collapsed'
\* is absent from it or is its last token, and the empty string for the
\* missing one.
C15_ToggleMovesLast ==
    WellFormed(class_names[1]) =>
        /\ \A i \in 1..(Len(class_names) - 1) :
               /\ WellFormed(class_names[i + 1])
               /\ ToggledOnce(class_names[i], class_names[i + 1])
        /\ Len(class_names) >= 3 =>
               LET c == class_names[1]
                   d == class_names[3]
               IN  /\ SelectSeq(Tokens(d), IsOther) = SelectSeq(Tokens(c), IsOther)
                   /\ HasCollapsed(d) <=> HasCollapsed(c)
                   /\ CollapsedLastOrAbsent(d)
                   /\ (c # None /\ CollapsedLastOrAbsent(c)) => d = c
                   /\ c = None => d = <<>>

\* "a collapsed b" has become "a b" and then "a b collapsed".
C15_Witness ==
    /\ pc = "toggle"
    /\ class_names = << <<"a", " ", "collapsed", " ", "b">>,
                        <<"a", " ", "b">>,
                        <<"a", " ", "b", " ", "collapsed">> >>

\* ------------------------------------------------ properties of the page
\* The run_optimization job is running.
JobRunning == pc = "ready" /\ job.running

\* C16: while the run_optimization job is running the cancel button is
\* visible, the run button is hidden and the results tab is disabled with
\* the label 'Loading...'; the step that ends the job, by completion or by
\* a click on cancel, hides the cancel button, shows the run button, enables
\* the results tab with the label 'Results' and selects 'input-tab'.
C16_RunningProperties ==
    [][/\ JobRunning' =>
              /\ ui'["cancel-button.className"] = <<>>
              /\ ui'["run-button.className"] = <<"display-none">>
              /\ ui'["results-tab.disabled"] = TRUE
              /\ ui'["results-tab.label"] = <<"Loading...">>
       /\ (JobRunning /\ ~JobRunning') =>
              /\ ui'["cancel-button.className"] = <<"display-none">>
              /\ ui'["run-button.className"] = <<>>
              /\ ui'["results-tab.disabled"] = FALSE
              /\ ui'["results-tab.label"] = <<"Results">>
              /\ ui'["tabs.value"] = <<"input-tab">>]_vars

\* A job has completed with a figure: the results tab is enabled and the
\* run button is back.
C16_Witness ==
    /\ pc = "ready"
    /\ ~job.running
    /\ ui["results-graph.figure"] # None
    /\ ui["results-tab.disabled"] = FALSE
    /\ ui["results-tab.label"] = <<"Results">>
    /\ ui["run-button.className"] = <<>>
    /\ ui["cancel-button.className"] = <<"display-none">>

\* A step on which render_initial_state fires: the page load, or a change
\* of one of the two system selections.
RenderFires ==
    \/ pc = "page_load" /\ pc' = "ready"
    \/ /\ pc = "ready" /\ pc' = "ready"
       /\ <<ui'["advantage-setting.value"], ui'["advantage2-setting.value"]>>
              # <<ui["advantage-setting.value"], ui["advantage2-setting.value"]>>

\* C17 (as claimed): when either selection is empty or the part of the
\* Advantage selection before the first '_' does not contain 'Advantage',
\* render_initial_state leaves the two figures, the two stores and
\* run-button.disabled as they were; otherwise it stores the serialized
\* intersection graph and mapping dict of the two selected systems and sets
\* run-button.disabled to false.
C17_PreventOrStore ==
    [][RenderFires =>
          LET advantage_system  == ui'["advantage-setting.value"]
              advantage2_system == ui'["advantage2-setting.value"]
              chip == ChipResult(advantage_system, advantage2_system)
          IN  IF \/ advantage_system = None \/ advantage_system = <<>>
                 \/ advantage2_system = None \/ advantage2_system = <<>>
                 \/ ~Contains(SplitHead(advantage_system), "Advantage")
              THEN \A i \in 1..Len(RenderOutputs) : ui'[RenderOutputs[i]] = ui[RenderOutputs[i]]
              ELSE /\ ui'["chimera-g.data"] = serialize(chip.intersection_graph)
                   /\ ui'["best-mapping.data"] = serialize(chip.best_mapping)
                   /\ ui'["run-button.disabled"] = FALSE]_vars

\* ---------------------------------------- update_anneal_time (SpecAnneal)
\* The largest annealing time of a range, in the ranges' unit.
MaxTime == 2

\* annealing_time_range and fast_anneal_time_range: a lower and an upper
\* bound.
TimeRanges == {r \in (0..MaxTime) \X (0..MaxTime) : r[1] <= r[2]}

\* The page after its load for one solver of each family, whatever the
\* ranges of the two solvers; or for no solver at all.
AnnealInit ==
    /\ pc = "ready"
    /\ \/ /\ advantage_solvers = <<DEFAULT_ADVANTAGE>>
          /\ advantage2_solvers = <<DEFAULT_ADVANTAGE2>>
          /\ ANNEAL_TIME_RANGES \in
                 [{DEFAULT_ADVANTAGE, DEFAULT_ADVANTAGE2} ->
                      [fast : TimeRanges, standard : TimeRanges]]
       \/ /\ advantage_solvers = <<NoLeapAccess>>
          /\ advantage2_solvers = <<NoLeapAccess>>
          /\ ANNEAL_TIME_RANGES = <<>>
    /\ ui = Layout(advantage_solvers, advantage2_solvers, ANNEAL_TIME_RANGES)
    /\ job = NoJob
    /\ ToggleIdle
    /\ EnergyIdle
    /\ ShapeIdle
    /\ MappingIdle

AnnealNext == SelectAnnealType

SpecAnneal == AnnealInit /\ [][AnnealNext]_vars

\* update_anneal_time has returned on the page as it stands.
AnnealTimeUpdated == pc = "ready" /\ ui["anneal-time-help.children"] # None

InRange(v, r) == r[1] <= v /\ v <= r[2]

\* C18: update_anneal_time returns the intersection of the two selected
\* systems' ranges for the selected anneal type, 'standard' for type 0 and
\* 'fast' otherwise: min is the larger lower bound, max the smaller upper
\* bound, a value lies in [min, max] iff it lies in both ranges, and the
\* help text names these two bounds.
C18_RangeIntersection ==
    AnnealTimeUpdated =>
        LET type == IF ui["anneal-type-setting.value"] = 0 THEN "standard" ELSE "fast"
            r1   == ANNEAL_TIME_RANGES[ui["advantage-setting.value"]][type]
            r2   == ANNEAL_TIME_RANGES[ui["advantage2-setting.value"]][type]
            lo   == ui["annealing-time-setting.min"]
            hi   == ui["annealing-time-setting.max"]
        IN  /\ lo \in {r1[1], r2[1]} /\ lo >= r1[1] /\ lo >= r2[1]
            /\ hi \in {r1[2], r2[2]} /\ hi <= r1[2] /\ hi <= r2[2]
            /\ \A v \in 0..(MaxTime + 1) :
                   InRange(v, <<lo, hi>>) <=> (InRange(v, r1) /\ InRange(v, r2))
            /\ ui["anneal-time-help.children"] = <<"Must be between ", lo, " and ", hi>>

\* The fast type is selected; the lower bound comes from the Advantage2
\* system and the upper bound from the Advantage system, and the standard
\* ranges would have given other bounds.
C18_Witness ==
    /\ AnnealTimeUpdated
    /\ ui["anneal-type-setting.value"] = 1
    /\ ANNEAL_TIME_RANGES[DEFAULT_ADVANTAGE].fast = <<0, 1>>
    /\ ANNEAL_TIME_RANGES[DEFAULT_ADVANTAGE2].fast = <<1, 2>>
    /\ ANNEAL_TIME_RANGES[DEFAULT_ADVANTAGE].standard = <<0, 2>>
    /\ ANNEAL_TIME_RANGES[DEFAULT_ADVANTAGE2].standard = <<0, 0>>
    /\ ui["annealing-time-setting.min"] = 1
    /\ ui["annealing-time-setting.max"] = 1

\* The names the client reported, and those of each family.
ReportedNames == DOMAIN ANNEAL_TIME_RANGES

ReportedAdvantage == {n \in ReportedNames : SplitHead(n) = <<"Advantage">>}

ReportedAdvantage2 == {n \in ReportedNames : SplitHead(n) = <<"Advantage", "2">>}

BothFallback ==
    /\ advantage_solvers = <<NoLeapAccess>>
    /\ advantage2_solvers = <<NoLeapAccess>>

BothReal ==
    /\ Len(advantage_solvers) > 0
    /\ Len(advantage2_solvers) > 0
    /\ \A i \in 1..Len(advantage_solvers) : SplitHead(advantage_solvers[i]) = <<"Advantage">>
    /\ \A i \in 1..Len(advantage2_solvers) :
           SplitHead(advantage2_solvers[i]) = <<"Advantage", "2">>

\* C19: once demo_interface is imported, either both solver lists are
\* non-empty lists of the reported names of their family, or both are the
\* single entry 'No Leap Access'; they are the fallback whenever a family
\* has no reported name, and never is one list real and the other the
\* fallback or empty.
C19_BothOrNeither ==
    pc \in {"page_load", "ready"} =>
        /\ BothReal \/ BothFallback
        /\ ~(BothReal /\ BothFallback)
        /\ BothReal =>
               /\ Range(advantage_solvers) = ReportedAdvantage
               /\ Range(advantage2_solvers) = ReportedAdvantage2
        /\ (ReportedAdvantage = {} \/ ReportedAdvantage2 = {}) => BothFallback

\* The client reported two Advantage solvers and no Advantage2 solver: both
\* lists are the fallback.
C19_Witness ==
    /\ pc = "ready"
    /\ Cardinality(ReportedAdvantage) = 2
    /\ ReportedAdvantage2 = {}
    /\ BothFallback
    /\ ui["advantage-setting.value"] = NoLeapAccess

\* ------------------------------------------------- properties of the objects
\* A step that is a call of get_mapping by get_chip_intersection_graph.
ChipCallStep == pc \in {"start", "pegasus_done"} /\ pc' # pc

\* C20: a call of get_mapping leaves every graph object that exists before
\* it as it was, the target graph and the input reference graph among them;
\* the trimmed graph and the sub_graph it returns are two new objects, other
\* than each other and than every earlier object; so the sub_graph the
\* Pegasus call returned is the same after the Zephyr call, which was given
\* the trimmed graph of the Pegasus call.
C20_ArgumentsUntouched ==
    [][ChipCallStep =>
          /\ Len(heap') >= Len(heap)
          /\ \A o \in 1..Len(heap) : heap'[o] = heap[o]
          /\ heap'[id_of'.pegasus_qpu_g] = pegasus_qpu_g
          /\ heap'[id_of'.zephyr_qpu_g] = zephyr_qpu_g
          /\ heap'[id_of.intersection_graph] = intersection_graph
          /\ pc' \in {"pegasus_done", "done"} =>
                 LET trimmed   == id_of'.intersection_graph
                     sub_graph == IF pc = "start" THEN id_of'.pegasus_sub_g
                                  ELSE id_of'.zephyr_sub_g
                 IN  /\ trimmed > Len(heap)
                     /\ sub_graph > Len(heap)
                     /\ trimmed # sub_graph
                     /\ heap'[trimmed] = ret'.intersection_graph
                     /\ heap'[sub_graph] = ret'.sub_graph
          /\ pc' = "done" =>
                 /\ id_of'.pegasus_sub_g = id_of.pegasus_sub_g
                 /\ id_of.intersection_graph # id_of.pegasus_sub_g
                 /\ heap'[id_of'.pegasus_sub_g] = pegasus_sub_g]_vars

\* Both calls have returned: seven graph objects exist, the Zephyr call has
\* trimmed the graph it was given, and the Pegasus sub_graph still has the
\* image of an edge that was trimmed then.
C20_Witness ==
    /\ pc = "done"
    /\ Len(heap) = 7
    /\ heap[id_of.intersection_graph] # reference
    /\ heap[id_of.pegasus_sub_g] = pegasus_sub_g
    /\ Cardinality(UEdges(heap[id_of.pegasus_sub_g]))
           > Cardinality(UEdges(heap[id_of.intersection_graph]))
    /\ Cardinality(UEdges(heap[id_of.intersection_graph])) > 0

\* ------------------------------------------------ the run button (SpecUI)
\* The stores hold what a returning call of render_initial_state wrote for
\* two options of the system dropdowns.
StoresRendered ==
    \E a \in Range(advantage_solvers), a2 \in Range(advantage2_solvers) :
        LET r == ChipResult(a, a2)
        IN  /\ ui["chimera-g.data"] = serialize(r.intersection_graph)
            /\ ui["best-mapping.data"] = serialize(r.best_mapping)

\* C23 (as claimed): in every state of the page in which the run button is
\* enabled, the chimera-g and best-mapping stores hold the result of a
\* completed render_initial_state computation; with the 'No Leap Access'
\* lists the run button is never enabled.
C23_EnabledMeansStored ==
    pc \in {"page_load", "ready"} =>
        /\ ~ui["run-button.disabled"] => StoresRendered
        /\ BothFallback => ui["run-button.disabled"]

\* The fallback lists, empty stores and an enabled run button: the state the
\* annealing-time edits reach.
C23_FallbackEnabled ==
    /\ pc = "ready"
    /\ BothFallback
    /\ ui["chimera-g.data"] = None
    /\ ui["best-mapping.data"] = None
    /\ ~ui["run-button.disabled"]
    /\ ui["annealing-time-setting.value"] = Num(500)

\* The job started from that state ends with the AttributeError of an empty
\* store.
C23_RunFailed ==
    /\ pc = "ready"
    /\ BothFallback
    /\ job.running
    /\ job.result = Raises(<<"AttributeError">>)

\* ------------------------------------------- defective qubits (Spec)
\* m sends an endpoint of the reference edge e to something that is not a
\* node of the target graph.
MissingEnd(m, e) == m.f[e[1]] \notin DOMAIN qpu_graph \/ m.f[e[2]] \notin DOMAIN qpu_graph

\* The reference edges candidate m sends onto nodes of the target graph.
OnTarget(m) == {e \in EdgesOf(reference) : ~MissingEnd(m, e)}

\* What C22 says of candidate i and reference edge e once the call is over:
\* the edge is not among the candidate's surviving edges, the candidate's
\* yield counts edges between nodes of the target only, and the edge is not
\* in the trimmed graph when the candidate is the one selected.
NotSurviving(i, e) ==
    /\ e \notin SurvivingEdges(mappings[i], reference, qpu_graph)
    /\ CouplerYield(mappings[i], reference, qpu_graph) <= Cardinality(OnTarget(mappings[i]))
    /\ ret.mapping = mappings[i] =>
           /\ ~HasEdge(ret.intersection_graph, e)
           /\ ~HasEdge(ret.intersection_graph, <<e[2], e[1]>>)

\* C22 (as claimed): a reference edge with a mapped endpoint that is not a
\* node of the target graph is counted as not surviving, without any error:
\* the call returns, the edge adds nothing to that candidate's yield and it
\* is not in the trimmed reference graph.
C22_MissingNodeNotSurviving ==
    pc \in {"returned", "raised"} =>
        \A i \in 1..Len(mappings) : \A e \in EdgesOf(reference) :
            MissingEnd(mappings[i], e) => (ret.exc = "None" /\ NotSurviving(i, e))

\* The same of the calls that return: the lookup of a node the target graph
\* does not have answers False.
C22_NotSurvivingWhenReturned ==
    pc = "returned" =>
        \A i \in 1..Len(mappings) : \A e \in EdgesOf(reference) :
            MissingEnd(mappings[i], e) => NotSurviving(i, e)

\* A returning call whose selected candidate sends one edge of a path onto a
\* coupler and the other to a qubit the target graph does not have.
C22_DefectTrimmed ==
    /\ pc = "returned"
    /\ Cardinality(EdgesOf(reference)) = 2
    /\ Cardinality(EdgesOf(ret.intersection_graph)) = 1
    /\ \E e \in EdgesOf(reference) : MissingEnd(ret.mapping, e)

\* The only candidate sends the only reference edge to a missing qubit, and
\* the call has raised.
C22_DefectRaised ==
    /\ pc = "raised"
    /\ Len(mappings) = 1
    /\ Cardinality(EdgesOf(reference)) = 1
    /\ \E e \in EdgesOf(reference) : MissingEnd(mappings[1], e)

\* ------------------------- candidates that are not defined everywhere
\* m restricted to the nodes ns: called on another node it raises.
Restrict(m, ns) == [callable |-> TRUE, f |-> [n \in ns |-> m.f[n]]]

\* The sublattice mappings and those that fail on one reference node.
PartialMappings ==
    SublatticeMappings
        \cup {Restrict(m, RefNodes \ {n}) : m \in SublatticeMappings, n \in RefNodes}

\* m(n) returns.
Defined(m, n) == n \in DOMAIN m.f

\* "for m in mappings" with the comprehension inside: tuple(map(m, edge))
\* calls m on both endpoints of every edge of G, for every candidate, with no
\* try around it.
CandidateRaises(ms, G) ==
    \E i \in 1..Len(ms) : \E e \in EdgesOf(G) : ~Defined(ms[i], e[1]) \/ ~Defined(ms[i], e[2])

\* m made total: the nodes it fails on are sent to no node of a target.
Total(m) == [callable |-> TRUE,
             f |-> [n \in RefNodes |-> IF Defined(m, n) THEN m.f[n] ELSE n]]

\* get_mapping with a try around the call of the candidate that treats the
\* edge of a failing call as absent.
GetMappingCatching(qpu, G, ms) == GetMapping(qpu, G, [i \in 1..Len(ms) |-> Total(ms[i])])

\* get_mapping over candidates that may raise: the first failing call in the
\* selection loop ends get_mapping with the candidate's exception; when no
\* call fails there, none fails later, as the selected mapping is called on
\* the same edges again and relabel_nodes on their endpoints.
GetMappingPartial(qpu, G, ms) ==
    IF CandidateRaises(ms, G) THEN [exc |-> "KeyError"] ELSE GetMapping(qpu, G, ms)

\* ----------------------- a call of get_mapping, partial candidates (SpecPartial)
PartialInit ==
    /\ pc = "call_partial"
    /\ qpu_graph \in QpuGraphs
    /\ reference \in RefGraphs
    /\ mappings = <<>>
    /\ ret = NoResult
    /\ chimera = EmptyGraph
    /\ pegasus_qpu_g = EmptyGraph
    /\ zephyr_qpu_g = EmptyGraph
    /\ intersection_graph = EmptyGraph
    /\ pegasus_sub_g = EmptyGraph
    /\ pegasus_mapping = EmptyDict
    /\ zephyr_sub_g = EmptyGraph
    /\ zephyr_mapping = EmptyDict
    /\ heap = <<qpu_graph, reference>>
    /\ id_of = [qpu_graph |-> 1, reference |-> 2, intersection_graph |-> 0, sub_graph |-> 0]
    /\ DemoIdle

GetMappingPartialCall ==
    /\ pc = "call_partial"
    /\ \E ms \in CandidateSeqs(PartialMappings) :
          /\ mappings' = ms
          /\ ret' = GetMappingPartial(qpu_graph, reference, ms)
    /\ IF ret'.exc = "None"
       THEN /\ pc' = "returned"
            /\ heap' = NewGraphs(heap, ret').heap
            /\ id_of' = [id_of EXCEPT
                             !.intersection_graph = NewGraphs(heap, ret').intersection_graph,
                             !.sub_graph = NewGraphs(heap, ret').sub_graph]
       ELSE /\ pc' = "raised"
            /\ UNCHANGED object_vars
    /\ UNCHANGED <<qpu_graph, reference>>
    /\ UNCHANGED chip_vars
    /\ UNCHANGED demo_vars

PartialNext == GetMappingPartialCall

SpecPartial == PartialInit /\ [][PartialNext]_vars

\* m fails on an endpoint of a reference edge.
UndefinedOnEdge(m) ==
    \E e \in EdgesOf(reference) : e[1] \notin DOMAIN m.f \/ e[2] \notin DOMAIN m.f

\* C21: when a candidate is undefined for an endpoint of a reference edge and
\* raises, get_mapping ends with that exception: it returns no sub_graph, no
\* trimmed graph and no mapping and has made no graph, whatever the other
\* candidates yield; the edge is not treated as absent.  Any call that raises
\* returns nothing.
C21_FailurePropagates ==
    pc \in {"returned", "raised"} =>
        /\ (\E i \in 1..Len(mappings) : UndefinedOnEdge(mappings[i])) =>
               /\ pc = "raised"
               /\ ret = [exc |-> "KeyError"]
               /\ heap = <<qpu_graph, reference>>
        /\ pc = "raised" => DOMAIN ret = {"exc"}

\* The first candidate places both edges of a path on couplers, the second
\* fails on node 2: the call has raised, where dropping the failing edges
\* would have returned the first candidate.
C21_Witness ==
    /\ pc = "raised"
    /\ ret.exc = "KeyError"
    /\ Len(mappings) = 2
    /\ Cardinality(EdgesOf(reference)) = 2
    /\ DOMAIN mappings[1].f = RefNodes
    /\ YieldOf(mappings[1], reference, qpu_graph) = 2
    /\ DOMAIN mappings[2].f = RefNodes \ {2}
    /\ UndefinedOnEdge(mappings[2])

\* A candidate that fails on an isolated node only is never called on it:
\* the call has returned it.
C21_IsolatedNotCalled ==
    /\ pc = "returned"
    /\ DOMAIN ret.mapping.f # RefNodes
    /\ DOMAIN reference = RefNodes

====
